---- MODULE Spec2Model ----
(***************************************************************************)
(* aag2courageous: conversion of an Aaronia GPS log (NMEA GPRMC / GPGGA    *)
(* sentences) into a COURAGEOUS track document.  The model follows         *)
(* src/src/main.rs: argument parsing, opening the input, creating the      *)
(* output, the pairing pass over the lines (the closure of lines 76-118    *)
(* behind enumerate / filter_map / collect), the record normalizer (lines  *)
(* 131-174) and the final write.                                           *)
(*                                                                         *)
(* An Option<T> is modelled as a set with at most one element: None is {}  *)
(* and Some(x) is {x}, so that Option equality is set equality.            *)
(***************************************************************************)
EXTENDS Integers, Sequences, FiniteSets

\* ------------------------------------------------------------------ bounds

\* Number of lines of the input file that a run may hold.
MaxLines == 4

\* Number of distinct times of day the sentences may carry.
NumTimes == 2

\* Number of matched pairs handed to the record normalizer when it is checked
\* on its own (NormSpec).
MaxPairs == 3

\* ------------------------------------------------------------ Option<T>

None == {}

Some(x) == {x}

Opt(S) == {None} \cup {Some(x) : x \in S}

IsSome(o) == o # None

Unwrap(o) == CHOOSE x \in o : TRUE

\* ------------------------------------------------------------- the input

\* NaiveTime values, in milliseconds since midnight: 12:00:00.000,
\* 12:00:00.500, 12:00:01.000, ...
Times == {43200000 + 500 * (i - 1) : i \in 1..NumTimes}

\* NaiveDate values, in days since 1970-01-01: 2024-01-01.
Dates == {19723}

\* What an optional field of a sentence may hold besides its time and date.
Scalars == {7}

\* The optional fields of RmcData the program reads, without the line it
\* came from.  A sentence has all its fields, or lacks exactly one of them.
RmcFields ==
    {r \in [fix_time : Opt(Times), fix_date : Opt(Dates),
            speed_over_ground : Opt(Scalars), true_course : Opt(Scalars)] :
        Cardinality({f \in DOMAIN r : r[f] = None}) <= 1}

\* The optional fields of GgaData the program reads.
GgaFields ==
    {g \in [fix_time : Opt(Times), latitude : Opt(Scalars),
            longitude : Opt(Scalars), altitude : Opt(Scalars)] :
        Cardinality({f \in DOMAIN g : g[f] = None}) <= 1}

\* A line of the input file, by what the program can tell of it:
\*   comment    starts with "$PAAG"; decodes is what the decoder would make
\*              of the line were it given it (never a GPRMC or a GPGGA)
\*   malformed  nmea::parse_nmea_sentence fails on it
\*   other      parse_nmea_sentence succeeds, parse_rmc and parse_gga fail
\*   rmc        parse_rmc succeeds
\*   gga        parse_rmc fails and parse_gga succeeds
Lines ==
    {[kind |-> k] : k \in {"malformed", "other"}}
    \cup {[kind |-> "comment", decodes |-> d] : d \in {"malformed", "other"}}
    \cup {[kind |-> "rmc", data |-> r] : r \in RmcFields}
    \cup {[kind |-> "gga", data |-> g] : g \in GgaFields}

\* The sentence data with the 1-based number of the line it was decoded from
\* (history only: the program never reads src).
Stamp(data, n) == [f \in DOMAIN data \cup {"src"} |->
                      IF f = "src" THEN n ELSE data[f]]

\* ------------------------------------------------------------- the state

VARIABLES
    pc,               \* where main is
    out_file,         \* the file at output_path: absent, old, empty, document
    last_rmc,         \* Option<RmcData>
    previous_rmc,     \* Option<RmcData>
    line_num,         \* lines the pairing pass has consumed (enumerate's count)
    line,             \* Option of the line consumed last (history)
    rmc_gga_records,  \* the pairs collected so far
    records,          \* the TrackingRecords
    error             \* Option of the error main returns

vars == <<pc, out_file, last_rmc, previous_rmc, line_num, line,
          rmc_gga_records, records, error>>

Init ==
    /\ pc = "args"
    /\ out_file \in {"absent", "old"}
    /\ last_rmc = None
    /\ previous_rmc = None
    /\ line_num = 0
    /\ line = None
    /\ rmc_gga_records = <<>>
    /\ records = <<>>
    /\ error = None

\* ------------------------------------------------------ the pairing pass

\* PushRmc with the two slots taken for one another.
PushRmcSwapped(rmc, last, previous) ==
    IF previous = None
    THEN [last |-> last, previous |-> Some(rmc)]
    ELSE [last |-> previous, previous |-> Some(rmc)]

\* PushRmc without the shift of last_rmc into previous_rmc.
PushRmcNoShift(rmc, last, previous) ==
    [last |-> Some(rmc), previous |-> previous]

\* Lines 95-100: a GPRMC with a time is stored; the one stored before it, if
\* any, moves to previous_rmc.
PushRmc(rmc, last, previous) ==
    IF last = None
    THEN [last |-> Some(rmc), previous |-> previous]
    ELSE [last |-> Some(rmc), previous |-> last]

\* MatchGga without the comparison of the times.
MatchGgaAnyTime(gga, last, previous) ==
    IF IsSome(previous)
    THEN [out |-> Some([gga |-> gga, rmc |-> Unwrap(previous)]),
          last |-> last, previous |-> None]
    ELSE IF IsSome(last)
    THEN [out |-> Some([gga |-> gga, rmc |-> Unwrap(last)]),
          last |-> None, previous |-> previous]
    ELSE [out |-> None, last |-> last, previous |-> previous]

\* MatchGga that reads the slots without taking the value out of them.
MatchGgaNoClear(gga, last, previous) ==
    IF IsSome(previous)
    THEN LET prev == Unwrap(previous) IN
         IF gga.fix_time = prev.fix_time
         THEN [out |-> Some([gga |-> gga, rmc |-> prev]),
               last |-> last, previous |-> previous]
         ELSE [out |-> None, last |-> last, previous |-> previous]
    ELSE IF IsSome(last)
    THEN LET l == Unwrap(last) IN
         IF gga.fix_time = l.fix_time
         THEN [out |-> Some([gga |-> gga, rmc |-> l]),
               last |-> last, previous |-> previous]
         ELSE [out |-> None, last |-> last, previous |-> previous]
    ELSE [out |-> None, last |-> last, previous |-> previous]

\* MatchGga with last_rmc looked at before previous_rmc.
MatchGgaLastFirst(gga, last, previous) ==
    IF IsSome(last)
    THEN LET l == Unwrap(last) IN
         IF gga.fix_time = l.fix_time
         THEN [out |-> Some([gga |-> gga, rmc |-> l]),
               last |-> None, previous |-> previous]
         ELSE [out |-> None, last |-> Some(l), previous |-> previous]
    ELSE IF IsSome(previous)
    THEN LET prev == Unwrap(previous) IN
         IF gga.fix_time = prev.fix_time
         THEN [out |-> Some([gga |-> gga, rmc |-> prev]),
               last |-> last, previous |-> None]
         ELSE [out |-> None, last |-> last, previous |-> Some(prev)]
    ELSE [out |-> None, last |-> last, previous |-> previous]

\* MatchGga that does not put a taken value back when it does not match.
MatchGgaNoRestore(gga, last, previous) ==
    IF IsSome(previous)
    THEN LET prev == Unwrap(previous) IN
         IF gga.fix_time = prev.fix_time
         THEN [out |-> Some([gga |-> gga, rmc |-> prev]),
               last |-> last, previous |-> None]
         ELSE [out |-> None, last |-> last, previous |-> None]
    ELSE IF IsSome(last)
    THEN LET l == Unwrap(last) IN
         IF gga.fix_time = l.fix_time
         THEN [out |-> Some([gga |-> gga, rmc |-> l]),
               last |-> None, previous |-> previous]
         ELSE [out |-> None, last |-> None, previous |-> previous]
    ELSE [out |-> None, last |-> last, previous |-> previous]

\* Lines 102-114: a GPGGA is compared with previous_rmc when there is one, and
\* with last_rmc only when there is no previous_rmc.  A taken value that does
\* not match is put back.
MatchGga(gga, last, previous) ==
    IF IsSome(previous)
    THEN LET prev == Unwrap(previous) IN
         IF gga.fix_time = prev.fix_time
         THEN [out |-> Some([gga |-> gga, rmc |-> prev]),
               last |-> last, previous |-> None]
         ELSE [out |-> None, last |-> last, previous |-> Some(prev)]
    ELSE IF IsSome(last)
    THEN LET l == Unwrap(last) IN
         IF gga.fix_time = l.fix_time
         THEN [out |-> Some([gga |-> gga, rmc |-> l]),
               last |-> None, previous |-> previous]
         ELSE [out |-> None, last |-> Some(l), previous |-> previous]
    ELSE [out |-> None, last |-> last, previous |-> previous]

\* The prefix test that lets every line through to the decoder.
StartsWithPaagNever(l) == FALSE

\* Line 77: line.starts_with("$PAAG").
StartsWithPaag(l) == l.kind = "comment"

\* Lines 83-101: what parse_nmea_sentence, parse_rmc and parse_gga make of a
\* line: malformed, rmc, gga or other.
Decoded(l) == IF l.kind = "comment" THEN l.decodes ELSE l.kind

\* A GPRMC without a time is not kept out of last_rmc.
KeepsRmcAlways(rmc) == TRUE

\* Lines 92-94: a GPRMC is kept only when it has a time.
KeepsRmc(rmc) == rmc.fix_time # None

\* Lines 76-118: the closure applied to line l, the n-th of the file (1-based),
\* with last_rmc = last and previous_rmc = previous.  ok is FALSE for Err.
PairLine(l, n, last, previous) ==
    LET same == [ok |-> TRUE, out |-> None, last |-> last, previous |-> previous]
    IN
    IF StartsWithPaag(l)
    THEN same
    ELSE
    CASE Decoded(l) = "malformed" -> [same EXCEPT !.ok = FALSE]
      [] Decoded(l) = "rmc" ->
            IF ~ KeepsRmc(l.data)
            THEN same
            ELSE LET p == PushRmc(Stamp(l.data, n), last, previous) IN
                 [ok |-> TRUE, out |-> None, last |-> p.last,
                  previous |-> p.previous]
      [] Decoded(l) = "gga" ->
            LET m == MatchGga(Stamp(l.data, n), last, previous) IN
            [ok |-> TRUE, out |-> m.out, last |-> m.last,
             previous |-> m.previous]
      [] Decoded(l) = "other" -> same

\* ParseContext with enumerate's count used as it is.
ParseContextZeroBased(count) == [kind |-> "parse", line |-> count]

\* Lines 119-126: the context put on an Err, from enumerate's 0-based count.
ParseContext(count) == [kind |-> "parse", line |-> count + 1]

\* --------------------------------------------------- the record normalizer

\* Line 149: the cast of num_seconds() to u64, which wraps what is negative.
AsU64(x) == IF x >= 0 THEN x ELSE x + 2^64

\* The seconds rounded to the nearest, not cut.
UnixSecondsRounded(date, time) == AsU64(date * 86400 + (time + 500) \div 1000)

\* Lines 145-149: seconds from 1970-01-01T00:00:00Z to date at time.
UnixSeconds(date, time) == AsU64(date * 86400 + time \div 1000)

\* NormalizeRecord with a default in place of every missing field.
NormalizeRecordDefaults(record_idx, pair) ==
    LET rmc == pair.rmc
        gga == pair.gga
        OrZero(o) == IF IsSome(o) THEN Unwrap(o) ELSE 0
    IN
    Some([alarm |-> [active |-> FALSE, certainty |-> 0],
          classification |-> "Uav",
          location |-> [lat |-> OrZero(gga.latitude),
                        lon |-> OrZero(gga.longitude),
                        height |-> OrZero(gga.altitude)],
          record_number |-> record_idx,
          time |-> UnixSeconds(OrZero(rmc.fix_date), OrZero(gga.fix_time)),
          velocity |-> None,
          identification |-> None,
          cuas_location |-> None])

\* Lines 134-173: the TrackingRecord of a pair, or None.
NormalizeRecord(record_idx, pair) ==
    LET rmc == pair.rmc
        gga == pair.gga
    IN
    IF ~ (IsSome(rmc.fix_date) /\ IsSome(rmc.speed_over_ground)
          /\ IsSome(rmc.true_course))
    THEN None
    ELSE IF ~ (IsSome(gga.fix_time) /\ IsSome(gga.latitude)
               /\ IsSome(gga.longitude) /\ IsSome(gga.altitude))
    THEN None
    ELSE Some([alarm |-> [active |-> FALSE, certainty |-> 0],
               classification |-> "Uav",
               location |-> [lat |-> Unwrap(gga.latitude),
                             lon |-> Unwrap(gga.longitude),
                             height |-> Unwrap(gga.altitude)],
               record_number |-> record_idx,
               time |-> UnixSeconds(Unwrap(rmc.fix_date), Unwrap(gga.fix_time)),
               velocity |-> None,
               identification |-> None,
               cuas_location |-> None])

\* filter_map over the pairs numbered from idx on, in order.
RECURSIVE FilterMapRecords(_, _)
FilterMapRecords(pairs, idx) ==
    IF pairs = <<>>
    THEN <<>>
    ELSE LET r == NormalizeRecord(idx, Head(pairs)) IN
         (IF IsSome(r) THEN <<Unwrap(r)>> ELSE <<>>)
            \o FilterMapRecords(Tail(pairs), idx + 1)

\* map_while in place of filter_map: the records up to the first dropped pair.
RECURSIVE MapWhileRecords(_, _)
MapWhileRecords(pairs, idx) ==
    IF pairs = <<>>
    THEN <<>>
    ELSE LET r == NormalizeRecord(idx, Head(pairs)) IN
         IF IsSome(r)
         THEN <<Unwrap(r)>> \o MapWhileRecords(Tail(pairs), idx + 1)
         ELSE <<>>

NormalizerMapWhile(pairs) == MapWhileRecords(pairs, 0)

\* filter_map, then enumerate: the records numbered among the kept ones.
NormalizerNumbersKept(pairs) ==
    LET kept == FilterMapRecords(pairs, 0) IN
    [k \in 1..Len(kept) |-> [kept[k] EXCEPT !.record_number = k - 1]]

\* Lines 131-174: enumerate, then filter_map.
Normalizer(pairs) == FilterMapRecords(pairs, 0)

\* ---------------------------------------------------------------- main

\* Lines 46-58: clap accepts the arguments.
ArgsOk ==
    /\ pc = "args"
    /\ pc' = "open_input"
    /\ UNCHANGED <<out_file, last_rmc, previous_rmc, line_num, line,
                   rmc_gga_records, records, error>>

\* Lines 46-48: clap rejects the arguments and ends the process.
ArgsFail ==
    /\ pc = "args"
    /\ pc' = "failed"
    /\ error' = Some([kind |-> "args"])
    /\ UNCHANGED <<out_file, last_rmc, previous_rmc, line_num, line,
                   rmc_gga_records, records>>

\* Lines 60-63.
OpenInputOk ==
    /\ pc = "open_input"
    /\ pc' = "create_output"
    /\ UNCHANGED <<out_file, last_rmc, previous_rmc, line_num, line,
                   rmc_gga_records, records, error>>

OpenInputFail ==
    /\ pc = "open_input"
    /\ pc' = "failed"
    /\ error' = Some([kind |-> "read_input"])
    /\ UNCHANGED <<out_file, last_rmc, previous_rmc, line_num, line,
                   rmc_gga_records, records>>

\* Lines 64-67: File::create makes the file, or truncates the one there.
CreateOutputOk ==
    /\ pc = "create_output"
    /\ pc' = "read_lines"
    /\ out_file' = "empty"
    /\ UNCHANGED <<last_rmc, previous_rmc, line_num, line,
                   rmc_gga_records, records, error>>

CreateOutputFail ==
    /\ pc = "create_output"
    /\ pc' = "failed"
    /\ error' = Some([kind |-> "write_output"])
    /\ UNCHANGED <<out_file, last_rmc, previous_rmc, line_num, line,
                   rmc_gga_records, records>>

\* Line 72: every line is read before the pairing pass starts.
ReadLinesOk ==
    /\ pc = "read_lines"
    /\ pc' = "pairing"
    /\ UNCHANGED <<out_file, last_rmc, previous_rmc, line_num, line,
                   rmc_gga_records, records, error>>

ReadLinesFail ==
    /\ pc = "read_lines"
    /\ pc' = "failed"
    /\ error' = Some([kind |-> "io"])
    /\ UNCHANGED <<out_file, last_rmc, previous_rmc, line_num, line,
                   rmc_gga_records, records>>

\* Lines 74-129: collect pulls the next line through map, enumerate and
\* filter_map; the first Err ends the pass and main.
PairingStep ==
    /\ pc = "pairing"
    /\ line_num < MaxLines
    /\ \E l \in Lines :
          LET c == PairLine(l, line_num + 1, last_rmc, previous_rmc) IN
          /\ line' = Some(l)
          /\ line_num' = line_num + 1
          /\ last_rmc' = c.last
          /\ previous_rmc' = c.previous
          /\ IF c.ok
             THEN /\ pc' = "pairing"
                  /\ rmc_gga_records' =
                        IF IsSome(c.out)
                        THEN Append(rmc_gga_records, Unwrap(c.out))
                        ELSE rmc_gga_records
                  /\ error' = error
             ELSE /\ pc' = "failed"
                  /\ rmc_gga_records' = rmc_gga_records
                  /\ error' = Some(ParseContext(line_num))
    /\ UNCHANGED <<out_file, records>>

\* Line 129: the lines are exhausted.
PairingEnd ==
    /\ pc = "pairing"
    /\ pc' = "normalize"
    /\ UNCHANGED <<out_file, last_rmc, previous_rmc, line_num, line,
                   rmc_gga_records, records, error>>

\* Lines 131-174.
Normalize ==
    /\ pc = "normalize"
    /\ records' = Normalizer(rmc_gga_records)
    /\ pc' = "write"
    /\ UNCHANGED <<out_file, last_rmc, previous_rmc, line_num, line,
                   rmc_gga_records, error>>

\* Lines 176-202: the document is serialized to the output file.
WriteOk ==
    /\ pc = "write"
    /\ pc' = "done"
    /\ out_file' = "document"
    /\ UNCHANGED <<last_rmc, previous_rmc, line_num, line,
                   rmc_gga_records, records, error>>

\* Lines 196-200: the writer fails part way.
WriteFail ==
    /\ pc = "write"
    /\ pc' = "failed"
    /\ out_file' = "partial"
    /\ error' = Some([kind |-> "serialize"])
    /\ UNCHANGED <<last_rmc, previous_rmc, line_num, line,
                   rmc_gga_records, records>>

Next ==
    \/ ArgsOk
    \/ ArgsFail
    \/ OpenInputOk
    \/ OpenInputFail
    \/ CreateOutputOk
    \/ CreateOutputFail
    \/ ReadLinesOk
    \/ ReadLinesFail
    \/ PairingStep
    \/ PairingEnd
    \/ Normalize
    \/ WriteOk
    \/ WriteFail

Spec == Init /\ [][Next]_vars

\* The record normalizer on its own: the run has paired the lines
\* Primary(T_1), Secondary(T_1), ..., Primary(T_n), Secondary(T_n), each
\* GPGGA with the GPRMC stored just before it, and is about to normalize.

\* The time of day of the i-th pair.
PairTime(i) == 43200000 + 500 * ((i - 1) % NumTimes)

\* What the i-th pair may be: lines 2i-1 and 2i, any fields present or not.
PairInputs(i) ==
    {[gga |-> Stamp(g, 2 * i), rmc |-> Stamp(r, 2 * i - 1)] :
        r \in {x \in RmcFields : x.fix_time = Some(PairTime(i))},
        g \in {x \in GgaFields : x.fix_time = Some(PairTime(i))}}

RECURSIVE PairSeqs(_)
PairSeqs(n) ==
    IF n = 0
    THEN {<<>>}
    ELSE {Append(s, p) : s \in PairSeqs(n - 1), p \in PairInputs(n)}

NormInit ==
    /\ pc = "normalize"
    /\ out_file = "empty"
    /\ last_rmc = None
    /\ previous_rmc = None
    /\ \E n \in 0..MaxPairs :
          /\ rmc_gga_records \in PairSeqs(n)
          /\ line_num = 2 * n
          /\ line = IF n = 0
                    THEN None
                    ELSE LET g == rmc_gga_records[n].gga IN
                         Some([kind |-> "gga",
                               data |-> [f \in DOMAIN g \ {"src"} |-> g[f]]])
    /\ records = <<>>
    /\ error = None

NormNext ==
    \/ Normalize
    \/ WriteOk
    \/ WriteFail

NormSpec == NormInit /\ [][NormNext]_vars

\* The time computation on its own: the run has paired one complete GPRMC
\* with one complete GPGGA and is about to normalize the pair.

\* Dates between the first the decoder gives (two-digit years from 83 on are
\* 19xx) and the last whose seconds fit the model's integers: 1983-01-01,
\* 1999-12-31, 2000-02-29, 2024-01-01, 2038-01-18, in days since 1970-01-01.
TimeDates == {4748, 10956, 11016, 19723, 24854}

\* Times of day in milliseconds: 00:00:00.000, 00:00:00.999, 00:00:01.000,
\* 12:00:00.000, 12:00:00.500, 23:59:59.000, 23:59:59.999.
TimeTimes == {0, 999, 1000, 43200000, 43200500, 86399000, 86399999}

TimeInit ==
    /\ pc = "normalize"
    /\ out_file = "empty"
    /\ last_rmc = None
    /\ previous_rmc = None
    /\ line_num = 2
    /\ \E d \in TimeDates, t \in TimeTimes :
          /\ rmc_gga_records =
                <<[gga |-> [fix_time |-> Some(t), latitude |-> Some(7),
                            longitude |-> Some(7), altitude |-> Some(7),
                            src |-> 2],
                   rmc |-> [fix_time |-> Some(t), fix_date |-> Some(d),
                            speed_over_ground |-> Some(7),
                            true_course |-> Some(7), src |-> 1]]>>
          /\ line = Some([kind |-> "gga",
                          data |-> [fix_time |-> Some(t), latitude |-> Some(7),
                                    longitude |-> Some(7),
                                    altitude |-> Some(7)]])
    /\ records = <<>>
    /\ error = None

TimeSpec == TimeInit /\ [][NormNext]_vars

\* The error main returns does not reach the exit code.
ExitCodeAlwaysZero == IF pc \in {"done", "failed"} THEN 0 ELSE -1

\* The process exit code: 0 when main returns Ok.
ExitCode == IF pc = "done" THEN 0 ELSE IF pc = "failed" THEN 1 ELSE -1

\* ------------------------------------------------------------- the claims

\* A step of the pairing pass: one more line has been pulled through.
Consumed == pc = "pairing" /\ line_num' = line_num + 1

\* The line such a step consumes, and the sentence decoded from it.
NewLine == Unwrap(line')

NewData == Stamp(NewLine.data, line_num + 1)

\* The step consumes a GPGGA whose time is present.
ConsumedGga ==
    Consumed /\ NewLine.kind = "gga" /\ IsSome(NewLine.data.fix_time)

\* The step consumes a GPRMC whose time is present.
ConsumedRmc ==
    Consumed /\ NewLine.kind = "rmc" /\ IsSome(NewLine.data.fix_time)

\* A retained GPRMC (an Option) holds the time of the GPGGA being consumed.
Holds(slot) == IsSome(slot) /\ Unwrap(slot).fix_time = NewLine.data.fix_time

\* The step emits exactly the pair of the consumed GPGGA with rmc.
Emits(rmc) ==
    rmc_gga_records' = Append(rmc_gga_records, [gga |-> NewData, rmc |-> rmc])

\* C1 (as claimed): whenever a GPRMC with time T is immediately followed by a
\* GPGGA with the same time T, the step that consumes the GPGGA emits exactly
\* one pair, and that pair is for T, whatever came before.
C1_PairingCorrectness ==
    [][(ConsumedGga /\ IsSome(line) /\ Unwrap(line).kind = "rmc"
          /\ Unwrap(line).data.fix_time = NewLine.data.fix_time)
       => /\ Len(rmc_gga_records') = Len(rmc_gga_records) + 1
          /\ rmc_gga_records'[Len(rmc_gga_records')].gga = NewData
          /\ rmc_gga_records'[Len(rmc_gga_records')].rmc.fix_time
                = NewLine.data.fix_time]_vars

\* C2: a GPGGA with time t consumed while previous_rmc holds time t is emitted
\* with previous_rmc, previous_rmc is cleared and last_rmc is left as it was;
\* and a GPRMC left alone in last_rmc is emitted with a later GPGGA of its time.
C2_DesyncRecovery ==
    [][/\ (ConsumedGga /\ Holds(previous_rmc))
            => /\ Emits(Unwrap(previous_rmc))
               /\ previous_rmc' = None
               /\ last_rmc' = last_rmc
       /\ (ConsumedGga /\ previous_rmc = None /\ Holds(last_rmc))
            => Emits(Unwrap(last_rmc))]_vars

\* C2 witness: lines n-2, n-1, n were Primary(T1), Primary(T2), Secondary(T1)
\* with T1 # T2: the pair is (line n, line n-2) and line n-1 is still last_rmc.
C2_Witness ==
    /\ pc = "pairing"
    /\ line_num >= 3
    /\ rmc_gga_records # <<>>
    /\ LET p == rmc_gga_records[Len(rmc_gga_records)] IN
       /\ p.gga.src = line_num
       /\ p.rmc.src = line_num - 2
       /\ previous_rmc = None
       /\ IsSome(last_rmc)
       /\ Unwrap(last_rmc).src = line_num - 1
       /\ Unwrap(last_rmc).fix_time # p.rmc.fix_time

\* C3 (as claimed): a GPGGA with time t consumed while previous_rmc is absent
\* or holds another time, and last_rmc holds time t, is emitted with last_rmc,
\* and last_rmc is cleared.
C3_SecondRule ==
    [][(ConsumedGga /\ ~ Holds(previous_rmc) /\ Holds(last_rmc))
       => /\ Emits(Unwrap(last_rmc))
          /\ last_rmc' = None]_vars

\* C4: a GPGGA with time T consumed while neither previous_rmc nor last_rmc
\* holds time T emits no pair and leaves both slots as they were; the pass
\* goes on.
C4_NoFalseMatch ==
    [][(ConsumedGga /\ ~ Holds(previous_rmc) /\ ~ Holds(last_rmc))
       => /\ rmc_gga_records' = rmc_gga_records
          /\ previous_rmc' = previous_rmc
          /\ last_rmc' = last_rmc
          /\ pc' = "pairing"]_vars

\* C4 witness: the line consumed last is a GPGGA with a time, both slots are
\* taken by GPRMCs of another time, and no pair came from that line.
C4_Witness ==
    /\ pc = "pairing"
    /\ IsSome(line)
    /\ Unwrap(line).kind = "gga"
    /\ IsSome(Unwrap(line).data.fix_time)
    /\ IsSome(previous_rmc)
    /\ IsSome(last_rmc)
    /\ Unwrap(previous_rmc).fix_time # Unwrap(line).data.fix_time
    /\ Unwrap(last_rmc).fix_time # Unwrap(line).data.fix_time
    /\ \A i \in 1..Len(rmc_gga_records) : rmc_gga_records[i].gga.src # line_num

\* C5: consuming a GPRMC whose time is present sets previous_rmc to what
\* last_rmc was, last_rmc to the new GPRMC, and emits no pair.
C5_PrimaryPush ==
    [][ConsumedRmc
       => /\ previous_rmc' = last_rmc
          /\ last_rmc' = Some(NewData)
          /\ rmc_gga_records' = rmc_gga_records]_vars

\* C5 witness: three GPRMCs in a row: the first one has been discarded.
C5_Witness ==
    /\ line_num >= 3
    /\ IsSome(previous_rmc)
    /\ IsSome(last_rmc)
    /\ Unwrap(previous_rmc).src = line_num - 1
    /\ Unwrap(last_rmc).src = line_num
    /\ rmc_gga_records = <<>>

\* C9 (as claimed): a line that is no comment and decodes neither as a GPRMC
\* nor as a GPGGA ends the run with an error naming its 1-based number.
C9_FatalDecode ==
    [][(Consumed /\ NewLine.kind \in {"malformed", "other"})
       => /\ pc' = "failed"
          /\ error' = Some([kind |-> "parse", line |-> line_num + 1])]_vars

\* C9 (amended): a line on which parse_nmea_sentence fails ends the run with
\* an error naming its 1-based number, and neither the slots nor the pairs
\* change then or afterwards; a line that parses as a sentence and is neither
\* a GPRMC nor a GPGGA is skipped and the pass goes on.
C9_FatalParse ==
    [][/\ (Consumed /\ NewLine.kind = "malformed")
            => /\ pc' = "failed"
               /\ error' = Some([kind |-> "parse", line |-> line_num + 1])
               /\ UNCHANGED <<last_rmc, previous_rmc, rmc_gga_records>>
       /\ (Consumed /\ NewLine.kind = "other")
            => /\ pc' = "pairing"
               /\ error' = None
               /\ UNCHANGED <<last_rmc, previous_rmc, rmc_gga_records>>
       /\ pc = "failed"
            => UNCHANGED <<last_rmc, previous_rmc, rmc_gga_records>>]_vars

\* C9 witness: the run failed on a malformed line that is not the first one.
C9_Witness ==
    /\ pc = "failed"
    /\ line_num >= 2
    /\ Unwrap(line).kind = "malformed"
    /\ error = Some([kind |-> "parse", line |-> line_num])

\* C10 (as claimed): when the run has ended on a decode fault, the file at
\* the output path is as it was before the run: not created if it was absent,
\* neither truncated nor overwritten if it was there.
C10_NoOutputOnFailure ==
    (pc = "failed" /\ error \in {Some([kind |-> "parse", line |-> n]) :
                                     n \in 1..MaxLines})
       => out_file \in {"absent", "old"}

\* The normalizer has run.
Normalized ==
    \/ pc \in {"write", "done"}
    \/ pc = "failed" /\ error = Some([kind |-> "serialize"])

\* The records whose number is that of the i-th pair (0-based: i - 1).
RecordsOf(i) == {k \in 1..Len(records) : records[k].record_number = i - 1}

\* The i-th pair has every field the normalizer asks for.
HasAllFields(i) ==
    LET p == rmc_gga_records[i] IN
    /\ IsSome(p.rmc.fix_date)
    /\ IsSome(p.rmc.speed_over_ground)
    /\ IsSome(p.rmc.true_course)
    /\ IsSome(p.gga.fix_time)
    /\ IsSome(p.gga.latitude)
    /\ IsSome(p.gga.longitude)
    /\ IsSome(p.gga.altitude)

\* The i-th pair has the fields the specification asks for.
HasDateAndPosition(i) ==
    LET p == rmc_gga_records[i] IN
    /\ IsSome(p.rmc.fix_date)
    /\ IsSome(p.gga.fix_time)
    /\ IsSome(p.gga.latitude)
    /\ IsSome(p.gga.longitude)
    /\ IsSome(p.gga.altitude)

\* Record r holds the time and the position of the i-th pair.
RecordFrom(r, i) ==
    LET p == rmc_gga_records[i] IN
    /\ r.time = Unwrap(p.rmc.fix_date) * 86400
                   + Unwrap(p.gga.fix_time) \div 1000
    /\ r.location = [lat |-> Unwrap(p.gga.latitude),
                     lon |-> Unwrap(p.gga.longitude),
                     height |-> Unwrap(p.gga.altitude)]

\* C6: the record_number of every record is the 0-based index, among all the
\* pairs, of the pair it was made from; the numbers are strictly increasing
\* and two consecutive records differ by 1 plus the number of pairs dropped
\* between them.
C6_GapPreservingNumbers ==
    Normalized =>
        /\ \A k \in 1..Len(records) :
              /\ records[k].record_number + 1 \in 1..Len(rmc_gga_records)
              /\ HasAllFields(records[k].record_number + 1)
              /\ RecordFrom(records[k], records[k].record_number + 1)
        /\ Len(records)
              = Cardinality({i \in 1..Len(rmc_gga_records) : HasAllFields(i)})
        /\ \A k \in 1..(Len(records) - 1) :
              /\ records[k].record_number < records[k + 1].record_number
              /\ records[k + 1].record_number - records[k].record_number
                    = 1 + Cardinality(
                            {i \in 1..Len(rmc_gga_records) :
                                /\ records[k].record_number + 1 < i
                                /\ i < records[k + 1].record_number + 1
                                /\ RecordsOf(i) = {}})

\* C6 witness: three pairs, the second one dropped: the records are numbered
\* 0 and 2.
C6_Witness ==
    /\ pc = "write"
    /\ Len(rmc_gga_records) = 3
    /\ Len(records) = 2
    /\ records[1].record_number = 0
    /\ records[2].record_number = 2

\* C7 (as claimed): every pair whose GPRMC has a date and whose GPGGA has
\* time, latitude, longitude and altitude yields exactly one record, whether
\* or not the GPRMC has a speed and a course.
C7_RecordProduction ==
    Normalized =>
        \A i \in 1..Len(rmc_gga_records) :
            HasDateAndPosition(i) => Cardinality(RecordsOf(i)) = 1

\* C7 (amended): every pair whose GPRMC has a date, a speed over ground and a
\* true course and whose GPGGA has time, latitude, longitude and altitude
\* yields exactly one record, numbered by the pair's index and holding its
\* time and position.
C7_RecordProductionAllFields ==
    Normalized =>
        \A i \in 1..Len(rmc_gga_records) :
            HasAllFields(i) =>
                /\ Cardinality(RecordsOf(i)) = 1
                /\ \A k \in RecordsOf(i) : RecordFrom(records[k], i)

\* C7 witness: Primary(12:00:00, 2024-01-01, speed, course) and
\* Secondary(12:00:00, lat, lon, alt) give one record, numbered 0, at
\* 2024-01-01T12:00:00Z.
C7_Witness ==
    /\ pc = "write"
    /\ Len(rmc_gga_records) = 1
    /\ HasAllFields(1)
    /\ Len(records) = 1
    /\ records[1].record_number = 0
    /\ records[1].time = 1704110400
    /\ records[1].location = [lat |-> 7, lon |-> 7, height |-> 7]

\* C8: a pair whose GPRMC lacks the date, or whose GPGGA lacks time, latitude,
\* longitude or altitude, yields no record and no error: the normalizer goes
\* on to the write with every complete pair normalized, and the run that
\* writes its document ends with exit code 0.
C8_CompletenessDrop ==
    /\ Normalized =>
          \A i \in 1..Len(rmc_gga_records) :
              /\ ~ HasDateAndPosition(i) => RecordsOf(i) = {}
              /\ HasAllFields(i) => Cardinality(RecordsOf(i)) = 1
    /\ pc = "write" => error = None
    /\ pc = "done" => error = None /\ ExitCode = 0 /\ out_file = "document"

\* C8 witness: a run ended in success with a dropped pair before a kept one.
C8_Witness ==
    /\ pc = "done"
    /\ ExitCode = 0
    /\ \E i, j \in 1..Len(rmc_gga_records) :
          /\ i < j
          /\ ~ HasDateAndPosition(i)
          /\ RecordsOf(i) = {}
          /\ RecordsOf(j) # {}

\* C11: a line that starts with the comment prefix is not decoded: whatever
\* the decoder would make of it, consuming it raises no fault, emits no pair
\* and leaves both slots as they were; it is counted all the same, so that a
\* fault on the line after it is reported with that line's 1-based number.
C11_CommentSkip ==
    [][/\ (Consumed /\ NewLine.kind = "comment")
            => /\ pc' = "pairing"
               /\ error' = None
               /\ UNCHANGED <<last_rmc, previous_rmc, rmc_gga_records>>
       /\ (Consumed /\ IsSome(line) /\ Unwrap(line).kind = "comment"
             /\ NewLine.kind = "malformed")
            => /\ line_num >= 1
               /\ error' = Some([kind |-> "parse", line |-> line_num + 1])]_vars

\* C11 witness: a comment the decoder would reject has been consumed while a
\* GPRMC was retained, and the pass goes on.
C11_Witness ==
    /\ pc = "pairing"
    /\ line = Some([kind |-> "comment", decodes |-> "malformed"])
    /\ IsSome(last_rmc)
    /\ Unwrap(last_rmc).src = line_num - 1
    /\ error = None

\* The kind of the error the run ended with.
ErrorKind == Unwrap(error).kind

C13_SecondaryWithoutTime ==
    [][(Consumed /\ NewLine.kind = "gga" /\ NewLine.data.fix_time = None)
       => /\ rmc_gga_records' = rmc_gga_records
          /\ previous_rmc' = previous_rmc
          /\ last_rmc' = last_rmc
          /\ pc' = "pairing"]_vars

\* C13 witness: a GPGGA without a time has been consumed while both slots
\* were taken, and no pair came from it.
C13_Witness ==
    /\ pc = "pairing"
    /\ IsSome(line)
    /\ Unwrap(line).kind = "gga"
    /\ Unwrap(line).data.fix_time = None
    /\ IsSome(last_rmc)
    /\ IsSome(previous_rmc)
    /\ \A i \in 1..Len(rmc_gga_records) : rmc_gga_records[i].gga.src # line_num

\* C14: in every pair emitted so far the GPGGA and the GPRMC both have a
\* time, and the two times are equal.
C14_PairsShareTime ==
    \A i \in 1..Len(rmc_gga_records) :
        /\ IsSome(rmc_gga_records[i].gga.fix_time)
        /\ IsSome(rmc_gga_records[i].rmc.fix_time)
        /\ rmc_gga_records[i].gga.fix_time = rmc_gga_records[i].rmc.fix_time

\* C14 witness: two pairs have been emitted, for two different times.
C14_Witness ==
    /\ Len(rmc_gga_records) = 2
    /\ rmc_gga_records[1].rmc.fix_time # rmc_gga_records[2].rmc.fix_time

\* C15: each slot holds at most one GPRMC, so that at most two are retained,
\* and when both slots are taken the GPRMC in previous_rmc came from an
\* earlier line than the one in last_rmc.
C15_PendingState ==
    /\ Cardinality(previous_rmc) <= 1
    /\ Cardinality(last_rmc) <= 1
    /\ (IsSome(previous_rmc) /\ IsSome(last_rmc))
          => Unwrap(previous_rmc).src < Unwrap(last_rmc).src
    /\ \A slot \in {previous_rmc, last_rmc} :
          IsSome(slot) => Unwrap(slot).src \in 1..line_num

\* C15 witness: both slots are taken after more GPRMCs than there are slots.
C15_Witness ==
    /\ IsSome(previous_rmc)
    /\ IsSome(last_rmc)
    /\ Unwrap(previous_rmc).src >= 2

\* C16: the time of a record is the whole number of seconds from
\* 1970-01-01T00:00:00 UTC to the instant made of the GPRMC's date and the
\* GPGGA's time of day, what is less than a second being cut off: the day's
\* seconds plus the q for which the time of day lies in [q s, q s + 1 s).
C16_AbsoluteTime ==
    Normalized =>
        \A k \in 1..Len(records) :
            LET p == rmc_gga_records[records[k].record_number + 1]
                d == Unwrap(p.rmc.fix_date)
                t == Unwrap(p.gga.fix_time)
                q == records[k].time - d * 86400
            IN
            /\ q \in 0..86399
            /\ q * 1000 <= t
            /\ t < q * 1000 + 1000

\* C16 witness: a record made from a time of day with a part of a second.
C16_Witness ==
    /\ pc = "write"
    /\ Len(records) = 1
    /\ Unwrap(rmc_gga_records[1].gga.fix_time) % 1000 >= 500
    /\ Unwrap(rmc_gga_records[1].rmc.fix_date) # 19723

\* C17: no line is in two pairs, neither as the GPRMC nor as the GPGGA, and a
\* GPRMC that is in a pair is in neither slot any more, so that no later
\* GPGGA can be paired with it.
C17_OneToOne ==
    /\ \A i, j \in 1..Len(rmc_gga_records) :
          i # j => /\ rmc_gga_records[i].rmc.src # rmc_gga_records[j].rmc.src
                   /\ rmc_gga_records[i].gga.src # rmc_gga_records[j].gga.src
    /\ \A i \in 1..Len(rmc_gga_records) :
          \A slot \in {previous_rmc, last_rmc} :
              IsSome(slot) => Unwrap(slot).src # rmc_gga_records[i].rmc.src

\* C17 witness: Primary(T), Secondary(T), Secondary(T): the second GPGGA, of
\* the time of the GPRMC already paired, gave no pair.
C17_Witness ==
    /\ pc = "pairing"
    /\ Len(rmc_gga_records) = 1
    /\ IsSome(line)
    /\ Unwrap(line).kind = "gga"
    /\ Unwrap(line).data.fix_time = rmc_gga_records[1].rmc.fix_time
    /\ rmc_gga_records[1].gga.src = line_num - 1
    /\ rmc_gga_records[1].rmc.src = line_num - 2

\* previous_rmc is taken only while last_rmc is.
SlotsNested == IsSome(previous_rmc) => IsSome(last_rmc)

\* C18: in every state previous_rmc is present only if last_rmc is; a step
\* empties last_rmc only while previous_rmc is absent, and a GPRMC is stored
\* into an empty last_rmc only while previous_rmc is absent.
C18_SlotOccupancy ==
    [][/\ SlotsNested
       /\ SlotsNested'
       /\ (IsSome(last_rmc) /\ last_rmc' = None) => previous_rmc = None
       /\ (ConsumedRmc /\ last_rmc = None) => previous_rmc = None]_vars

\* C18 witness: both slots are taken again after a pair has emptied last_rmc.
C18_Witness ==
    /\ IsSome(previous_rmc)
    /\ IsSome(last_rmc)
    /\ rmc_gga_records # <<>>
    /\ rmc_gga_records[1].rmc.src < Unwrap(previous_rmc).src

\* The lines consumed so far are Primary(T_1), Secondary(T_1), Primary(T_2),
\* Secondary(T_2), ... from the empty slots on, and each GPGGA has been paired
\* with the GPRMC of the line before it: the pairs are those of lines
\* (2i, 2i-1), previous_rmc is absent, and last_rmc holds the GPRMC of the
\* last line when that line has no GPGGA yet.
Alternated ==
    /\ Len(rmc_gga_records) = line_num \div 2
    /\ \A i \in 1..Len(rmc_gga_records) :
          /\ rmc_gga_records[i].rmc.src = 2 * i - 1
          /\ rmc_gga_records[i].gga.src = 2 * i
    /\ previous_rmc = None
    /\ IF line_num % 2 = 0
       THEN last_rmc = None
       ELSE IsSome(last_rmc) /\ Unwrap(last_rmc).src = line_num

\* The step consumes the line that carries the alternation on: a GPRMC with
\* a time after an even number of lines, a GPGGA with the time of the GPRMC
\* just before it after an odd number.
Alternates ==
    IF line_num % 2 = 0
    THEN ConsumedRmc
    ELSE ConsumedGga /\ Holds(last_rmc)

\* C19: while the stream alternates Primary(T_i), Secondary(T_i) from the
\* empty slots on, every GPGGA is paired with the GPRMC just before it,
\* previous_rmc stays absent, and there are as many pairs as GPGGAs.
C19_StrictAlternation ==
    [][(Alternated /\ Alternates)
       => /\ Alternated'
          /\ previous_rmc' = None
          /\ line_num % 2 = 1 => Emits(Unwrap(last_rmc))]_vars

\* C19 witness: four alternating lines with two times gave two pairs.
C19_Witness ==
    /\ pc = "pairing"
    /\ line_num = 4
    /\ Alternated
    /\ rmc_gga_records[1].rmc.fix_time # rmc_gga_records[2].rmc.fix_time

====
